---- MODULE Spec2Model ----
(***************************************************************************)
(* Model of the ADK project manager: the epic refinement loop              *)
(* (app/sub_agents/epics_creator.py), the epic creation route              *)
(* (app/sub_agents/epic_creator.py, app/agent.py) and the project status   *)
(* aggregation of the Jira client (app/tools/integrations/jira.py).        *)
(*                                                                         *)
(* The language-model agents are modelled by what their instruction text   *)
(* tells them to do; the text they generate is drawn from small sets.      *)
(* LoopAgent is the ADK runtime's: it runs its sub-agents in order, again  *)
(* and again, returns when a sub-agent escalates and stops after           *)
(* max_iterations rounds; an error of a sub-agent ends it.                 *)
(***************************************************************************)
EXTENDS Integers, Sequences, FiniteSets, TLC

\* ------------------------------------------------------------------------
\* Refinement loop: constants of epics_creator.py
\* ------------------------------------------------------------------------

NoValue == "<unset>"

COMPLETION_PHRASE == "No major issues found."

max_iterations == 5

\* Texts the drafting and refining agents can produce.
Drafts == {"draft A", "draft B"}

\* Texts the critic can produce: the completion phrase, two near misses of it
\* (no trailing period; different letter case) and an ordinary critique.
Critiques ==
    { COMPLETION_PHRASE,
      "No major issues found",
      "no major issues found.",
      "Add acceptance criteria." }

\* Bound on the number of epics the tracker accepts in one behaviour.
MaxCreated == 1

VARIABLES
    phase,          \* which step of the agent runtime is active
    state,          \* the ADK session state: output_key -> text
    times_looped,   \* LoopAgent's count of completed iterations
    escalate,       \* tool_context.actions.escalate of the running refiner
    failure,        \* the error surfaced to the caller of the loop, or "none"
    critiques,      \* history: the critiques of the critic runs of this session
    reviewed,       \* history: the draft each critic run read
    refined,        \* history: the drafts written by the refine steps
    created,        \* the epics persisted in the tracker (with history fields)
    epic_data,      \* the epics the tracker returns to get_project_status
    task_data,      \* the issues the tracker returns to get_project_status
    now,            \* datetime.now() of the call, in hours
    days_back,      \* the recency window of the call, in days
    status_call,    \* "none" before get_project_status is called, then
                    \* "returned" or "raised"
    status_data,    \* what get_project_status returned, <<>> before the call
    calls,          \* history: the tool calls made and what each gave back
    ops             \* the tool operation run request by request: <<>> before
                    \* it, then one record of its inputs, requests and result

loopVars == <<phase, state, times_looped, escalate, failure,
              critiques, reviewed, refined>>

statusVars == <<epic_data, task_data, now, days_back, status_call, status_data>>

toolVars == <<calls, ops>>

\* The steps: IDLE (no agent has run or the last one has returned), DRAFTING
\* (epics_creator runs), CRITIQUING (epics_critic runs), REFINING
\* (RefinerAgent runs), and the three ends of the loop.
Terminal == {"DONE", "CAPPED", "ABORTED"}

\* No agent is running: a new invocation can start.
Idle == phase \in {"IDLE"} \cup Terminal

\* ------------------------------------------------------------------------
\* The agents' instructions, as operators
\* ------------------------------------------------------------------------

\* Variant: exit_loop returns without setting actions.escalate.
exit_loop_without_escalate == FALSE

\* exit_loop (the refiner's tool): the value it gives actions.escalate.
exit_loop == TRUE

\* Variant: the refiner matches the completion phrase loosely, whatever the
\* letter case and with or without the final period.
IsCompletion_loose(criticism) ==
    criticism \in { COMPLETION_PHRASE,
                    "No major issues found",
                    "no major issues found." }

\* The refiner's test on the critique: "IF the critique is *exactly*
\* COMPLETION_PHRASE".
IsCompletion(criticism) == criticism = COMPLETION_PHRASE

\* Variant: the text of the refiner's turn is stored under output_key also
\* when the turn called exit_loop.
RefinerOutput_always_stored(current, text, exits) == text

\* What the refiner leaves under its output_key: when it calls exit_loop it
\* outputs no text, so nothing is stored; otherwise the refined text
\* overwrites state['current_epic'].
RefinerOutput(current, text, exits) == IF exits THEN current ELSE text

\* Variant: the text of the critic is stored only when the session state
\* holds no critique yet.
CriticOutput_first_kept(session, text) ==
    IF session.criticism = NoValue
       THEN [session EXCEPT !.criticism = text]
       ELSE session

\* What the critic leaves in the session state: its text overwrites
\* state['criticism'] (output_key), whatever was there.
CriticOutput(session, text) == [session EXCEPT !.criticism = text]

\* Variant: the loop stops one iteration early.
LoopContinues_one_short(n) == n < max_iterations - 1

\* Variant: the loop allows one iteration more.
LoopContinues_one_more(n) == n <= max_iterations

\* LoopAgent's loop condition on the number of completed iterations.
LoopContinues(n) == n < max_iterations

\* Variant: the loop catches the error of a step and goes on with the next
\* step.
OnStepFailure_swallowed(step) ==
    [phase |-> IF step = "critic" THEN "REFINING" ELSE "CRITIQUING",
     failure |-> "none"]

\* The critic and the refiner have no error handler and neither has the loop:
\* a failing step ends the loop and the error reaches the caller.
OnStepFailure(step) == [phase |-> "ABORTED", failure |-> step]

\* ------------------------------------------------------------------------
\* Actions of the refinement session
\* ------------------------------------------------------------------------

InitLoop ==
    /\ phase = "IDLE"
    /\ state = [current_epic |-> NoValue, criticism |-> NoValue]
    /\ times_looped = 0
    /\ escalate = FALSE
    /\ failure = "none"
    /\ critiques = <<>>
    /\ reviewed = <<>>
    /\ refined = <<>>

\* root_agent hands the request to its sub-agent epics_creator. The locals of
\* an earlier run of the loop are gone.
RootDelegate ==
    /\ Idle
    /\ phase' = "DRAFTING"
    /\ times_looped' = 0
    /\ escalate' = FALSE
    /\ failure' = "none"
    /\ critiques' = <<>>
    /\ reviewed' = <<>>
    /\ refined' = <<>>
    /\ UNCHANGED <<state, created, statusVars, toolVars>>

\* epics_creator writes the initial draft under output_key current_epic and
\* its invocation ends: no agent is run after it.
EpicsCreatorRun ==
    /\ phase = "DRAFTING"
    /\ \E d \in Drafts :
          state' = [state EXCEPT !.current_epic = d]
    /\ phase' = "IDLE"
    /\ UNCHANGED <<times_looped, escalate, failure,
                   critiques, reviewed, refined, created, statusVars, toolVars>>

\* refinement_loop is run: LoopAgent starts with times_looped = 0.
LoopStart ==
    /\ Idle
    /\ times_looped' = 0
    /\ escalate' = FALSE
    /\ failure' = "none"
    /\ critiques' = <<>>
    /\ reviewed' = <<>>
    /\ refined' = <<>>
    /\ phase' = IF LoopContinues(0) THEN "CRITIQUING" ELSE "CAPPED"
    /\ UNCHANGED <<state, created, statusVars, toolVars>>

\* epics_critic reads {current_epic} and writes its text under criticism.
CriticRun ==
    /\ phase = "CRITIQUING"
    /\ state.current_epic # NoValue
    /\ \E c \in Critiques :
          /\ state' = CriticOutput(state, c)
          /\ critiques' = Append(critiques, c)
    /\ reviewed' = Append(reviewed, state.current_epic)
    /\ phase' = "REFINING"
    /\ UNCHANGED <<times_looped, escalate, failure, refined, created, statusVars, toolVars>>

\* The critic produces no output (the model call fails, or the placeholder
\* {current_epic} has no value in the session state).
CriticFail ==
    /\ phase = "CRITIQUING"
    /\ phase' = OnStepFailure("critic").phase
    /\ failure' = OnStepFailure("critic").failure
    /\ UNCHANGED <<state, times_looped, escalate, critiques, reviewed,
                   refined, created, statusVars, toolVars>>

\* RefinerAgent: calls exit_loop when the critique is the completion phrase,
\* otherwise writes the refined epic; then LoopAgent either returns (escalate),
\* counts the iteration and goes on, or stops at max_iterations.
RefinerRun ==
    /\ phase = "REFINING"
    /\ \E text \in Drafts :
          LET exits == IsCompletion(state.criticism)
              esc   == IF exits THEN exit_loop ELSE FALSE
          IN  /\ escalate' = esc
              /\ state' = [state EXCEPT !.current_epic =
                              RefinerOutput(state.current_epic, text, exits)]
              /\ refined' = IF exits THEN refined ELSE Append(refined, text)
              /\ IF esc
                    THEN /\ phase' = "DONE"
                         /\ times_looped' = times_looped
                    ELSE /\ times_looped' = times_looped + 1
                         /\ phase' = IF LoopContinues(times_looped + 1)
                                        THEN "CRITIQUING" ELSE "CAPPED"
    /\ UNCHANGED <<failure, critiques, reviewed, created, statusVars, toolVars>>

\* The refiner produces no output: the model call fails.
RefinerFail ==
    /\ phase = "REFINING"
    /\ phase' = OnStepFailure("refiner").phase
    /\ failure' = OnStepFailure("refiner").failure
    /\ UNCHANGED <<state, times_looped, escalate, critiques, reviewed,
                   refined, created, statusVars, toolVars>>

\* ------------------------------------------------------------------------
\* The epic creation route: epic_creator and its tool create_jira_epic
\* ------------------------------------------------------------------------

\* Descriptions epic_creator can pass to create_jira_epic: its instruction
\* tells it to use the requirements it received as the description.
Descriptions == Drafts \cup {"requirements"}

\* create_jira_epic: JiraClient() raises ValueError when a credential is
\* missing (no request is sent); otherwise one POST is sent, which either
\* fails (RequestException) or returns the key of the new epic.
create_jira_epic(config_ok, http_ok) ==
    IF ~config_ok THEN [sent |-> FALSE, kind |-> "config_error"]
    ELSE IF ~http_ok THEN [sent |-> TRUE, kind |-> "api_error"]
    ELSE [sent |-> TRUE, kind |-> "success"]

\* epic_creator runs and calls create_jira_epic. Nothing in the agent or in
\* the tool reads the session state of the refinement loop.
EpicCreatorRun ==
    /\ Idle
    /\ Len(created) < MaxCreated
    /\ \E description \in Descriptions, config_ok \in BOOLEAN, http_ok \in BOOLEAN :
          LET r == create_jira_epic(config_ok, http_ok)
          IN  created' =
                 IF r.kind = "success"
                    THEN Append(created,
                                [description |-> description,
                                 loop_ended  |-> phase \in {"DONE", "CAPPED"},
                                 final_draft |-> state.current_epic])
                    ELSE created
    /\ UNCHANGED <<loopVars, statusVars, toolVars>>

\* ------------------------------------------------------------------------
\* Project status aggregation: JiraClient.get_project_status
\* ------------------------------------------------------------------------

\* Texts whose letter case matters are sequences of characters; "Iacute" and
\* "iacute" stand for the letter i with an acute accent, upper and lower case.
UpperChars ==
    << "A", "B", "C", "D", "E", "F", "G", "H", "I", "J", "K", "L", "M",
       "N", "O", "P", "Q", "R", "S", "T", "U", "V", "W", "X", "Y", "Z",
       "Iacute" >>

LowerChars ==
    << "a", "b", "c", "d", "e", "f", "g", "h", "i", "j", "k", "l", "m",
       "n", "o", "p", "q", "r", "s", "t", "u", "v", "w", "x", "y", "z",
       "iacute" >>

LowerChar(c) ==
    IF \E i \in 1..Len(UpperChars) : UpperChars[i] = c
       THEN LowerChars[CHOOSE i \in 1..Len(UpperChars) : UpperChars[i] = c]
       ELSE c

\* str.lower()
Lower(text) == [i \in 1..Len(text) |-> LowerChar(text[i])]

\* The statuses get_project_status counts as completed.
CompletedStatuses ==
    { << "d", "o", "n", "e" >>,
      << "c", "l", "o", "s", "e", "d" >>,
      << "r", "e", "s", "o", "l", "v", "e", "d" >>,
      << "c", "o", "n", "c", "l", "u", "iacute", "d", "o" >>,
      << "f", "e", "c", "h", "a", "d", "o" >> }

\* Variant: the status is compared as it is, without lower-casing it.
IsCompleted_case_sensitive(status) == status \in CompletedStatuses

\* status.lower() in ["done", "closed", "resolved", "concluido", "fechado"]
IsCompleted(status) == Lower(status) \in CompletedStatuses

\* round(x, 1) of x = num / den, as a number of tenths: the nearest tenth,
\* a tie going to the even one.
RoundTenths(num, den) ==
    LET q == (10 * num) \div den
        r == (10 * num) % den
    IN  IF 2 * r < den THEN q
        ELSE IF 2 * r > den THEN q + 1
        ELSE IF q % 2 = 0 THEN q ELSE q + 1

\* Variant: the rate is cut to one decimal instead of rounded.
completion_rate_truncated(completed_tasks, task_count) ==
    IF task_count > 0
       THEN (completed_tasks * 1000) \div task_count
       ELSE 0

\* The completion rate of an epic, in tenths of a percent (750 is 75.0):
\* round((completed_tasks / task_count) * 100, 1), and 0 without tasks.
completion_rate(completed_tasks, task_count) ==
    IF task_count > 0
       THEN RoundTenths(completed_tasks * 100, task_count)
       ELSE 0

\* The accumulator built for one epic of the tracker's answer.
epic_info(epic) ==
    [ key             |-> epic.key,
      summary         |-> epic.summary,
      status          |-> epic.status,
      tasks           |-> <<>>,
      task_count      |-> 0,
      completed_tasks |-> 0 ]

\* The summary record appended to an epic's tasks.
task_info(task) ==
    [ key     |-> task.key,
      summary |-> task.summary,
      status  |-> task.status,
      type    |-> task.type ]

\* epic_map: the keys it holds, and for a key the place in epics of the
\* accumulator it refers to, which is the last epic with that key.
epic_map_keys(epics) == { epics[i].key : i \in 1..Len(epics) }

epic_map(epics, key) ==
    CHOOSE i \in 1..Len(epics) :
        /\ epics[i].key = key
        /\ \A j \in (i + 1)..Len(epics) : epics[j].key # key

\* Variant: a key is counted once, when it is first seen.
Count_first_only(hist, k) ==
    IF k \in DOMAIN hist
       THEN hist
       ELSE [x \in DOMAIN hist \cup {k} |-> IF x = k THEN 1 ELSE hist[x]]

\* hist[k] = hist.get(k, 0) + 1
Count(hist, k) ==
    IF k \in DOMAIN hist
       THEN [hist EXCEPT ![k] = @ + 1]
       ELSE [x \in DOMAIN hist \cup {k} |-> IF x = k THEN 1 ELSE hist[x]]

\* Variant: the window is taken in hours, not in days.
cutoff_date_in_hours(now_, days_back_) == now_ - days_back_

\* cutoff_date = datetime.now() - timedelta(days=days_back), in hours
cutoff_date(now_, days_back_) == now_ - 24 * days_back_

\* The field updated of an issue: kind "time" is a time, with the wall-clock
\* hour it states and the offset from UTC written after it; kind "none" is a
\* missing or empty value; kind "text" is a text that is no time.
Timestamp(wall, off) == [kind |-> "time", wall |-> wall, off |-> off]

IsTimestamp(updated) == updated.kind = "time"

\* datetime.fromisoformat(...).replace(tzinfo=None): the wall-clock hour, the
\* offset dropped.
updated_date(updated) == updated.wall

\* The order of two update texts as strings: the texts have one layout, so
\* the wall-clock digits decide and then the offset text, where "+" sorts
\* before "-".
OffsetTextRank(off) == IF off >= 0 THEN off ELSE 100 - off

TextLess(u, v) ==
    \/ u.wall < v.wall
    \/ /\ u.wall = v.wall
       /\ OffsetTextRank(u.off) < OffsetTextRank(v.off)

\* if parent and parent["key"] in epic_map
is_linked(epics, task) ==
    /\ task.parent # NoValue
    /\ task.parent \in epic_map_keys(epics)

\* The record of a task appended to the accumulator epic_map refers to.
append_task(epics, at, task) ==
    [epics EXCEPT ![at] =
        [@ EXCEPT
            !.tasks = Append(@, task_info(task)),
            !.task_count = @ + 1,
            !.completed_tasks =
                IF IsCompleted(task.status) THEN @ + 1 ELSE @]]

\* Variant: an issue whose parent is no epic of the answer goes to the first
\* epic.
attach_unknown_to_first(epics, task) ==
    IF is_linked(epics, task)
       THEN append_task(epics, epic_map(epics, task.parent), task)
       ELSE IF task.parent # NoValue /\ Len(epics) > 0
               THEN append_task(epics, 1, task)
               ELSE epics

\* Variant: an issue goes to every epic of the answer that carries the key
\* of its parent.
attach_to_every_epic(epics, task) ==
    IF is_linked(epics, task)
       THEN [ i \in 1..Len(epics) |->
                IF epics[i].key = task.parent
                   THEN append_task(epics, i, task)[i]
                   ELSE epics[i] ]
       ELSE epics

\* The epics after one issue: the issue is attached to the epic its parent
\* names, when that is an epic of the answer.
attach(epics, task) ==
    IF is_linked(epics, task)
       THEN append_task(epics, epic_map(epics, task.parent), task)
       ELSE epics

\* Variant: an update text that is no time is kept as a recent update.
is_recent_unparsed(task, cutoff) ==
    /\ task.updated.kind # "none"
    /\ IsTimestamp(task.updated) => updated_date(task.updated) > cutoff
    /\ task.summary # NoValue

\* Check for recent updates: the field updated is there, it parses as a
\* time, the time is after the cutoff, and the record of the update can be
\* built; a failure of the parse or of the record (an issue without the
\* field summary) is passed over.
is_recent(task, cutoff) ==
    /\ task.updated.kind # "none"
    /\ IsTimestamp(task.updated)
    /\ updated_date(task.updated) > cutoff
    /\ task.summary # NoValue

\* One pass of the loop over the tracker's issues.
process_task(acc, task) ==
    [ acc EXCEPT
        !.total_tasks = @ + 1,
        !.tasks_by_status = Count(@, task.status),
        !.tasks_by_type = Count(@, task.type),
        !.epics = attach(@, task),
        !.recent_updates =
            IF is_recent(task, acc.cutoff)
               THEN Append(@, [ key     |-> task.key,
                                summary |-> task.summary,
                                updated |-> task.updated,
                                status  |-> task.status,
                                type    |-> task.type ])
               ELSE @ ]

RECURSIVE process_tasks(_, _, _)
process_tasks(acc, tasks, i) ==
    IF i > Len(tasks)
       THEN acc
       ELSE process_tasks(process_task(acc, tasks[i]), tasks, i + 1)

\* sorted(recent_updates, key=updated, reverse=True): descending by the text
\* of updated, entries with equal texts staying in their order.
RECURSIVE InsertDesc(_, _)
InsertDesc(sorted, x) ==
    IF sorted = <<>>
       THEN <<x>>
       ELSE IF TextLess(Head(sorted).updated, x.updated)
               THEN <<x>> \o sorted
               ELSE <<Head(sorted)>> \o InsertDesc(Tail(sorted), x)

RECURSIVE SortedDesc(_, _)
SortedDesc(seq, i) ==
    IF i = 0 THEN <<>> ELSE InsertDesc(SortedDesc(seq, i - 1), seq[i])

\* The cap on recent_updates: [:10]
recent_cap == 10

Take(seq, n) == SubSeq(seq, 1, IF Len(seq) < n THEN Len(seq) ELSE n)

\* get_project_status, from the tracker's two answers on.
get_project_status(epic_data_, task_data_, now_, days_back_) ==
    LET start ==
            [ epics           |-> [i \in 1..Len(epic_data_) |-> epic_info(epic_data_[i])],
              tasks_by_status |-> <<>>,
              tasks_by_type   |-> <<>>,
              total_tasks     |-> 0,
              recent_updates  |-> <<>>,
              cutoff          |-> cutoff_date(now_, days_back_) ]
        acc == process_tasks(start, task_data_, 1)
        epics ==
            [ i \in 1..Len(acc.epics) |->
                [ key             |-> acc.epics[i].key,
                  summary         |-> acc.epics[i].summary,
                  status          |-> acc.epics[i].status,
                  tasks           |-> acc.epics[i].tasks,
                  task_count      |-> acc.epics[i].task_count,
                  completed_tasks |-> acc.epics[i].completed_tasks,
                  completion_rate |-> completion_rate(acc.epics[i].completed_tasks,
                                                      acc.epics[i].task_count) ] ]
    IN  [ total_epics     |-> Len(epics),
          total_tasks     |-> acc.total_tasks,
          tasks_by_status |-> acc.tasks_by_status,
          tasks_by_type   |-> acc.tasks_by_type,
          epics_detail    |-> epics,
          recent_updates  |-> Take(SortedDesc(acc.recent_updates,
                                              Len(acc.recent_updates)),
                                   recent_cap) ]

\* A status or an issue type that is missing or null in a record of the
\* tracker, and a parent object that has no key.
NoStatus == << NoValue >>

NoKey == "<no key>"

\* get_project_status raises (KeyError or TypeError) while it processes the
\* answers: epic["fields"]["summary"] on an epic without summary,
\* ["status"]["name"] on an epic or an issue whose status is missing or null,
\* ["issuetype"]["name"] likewise, parent["key"] on a parent object without
\* a key, and task["fields"]["summary"] on an attached issue without
\* summary. Nothing in get_project_status catches them.
get_project_status_raises(epic_data_, task_data_) ==
    \/ \E i \in 1..Len(epic_data_) :
          \/ epic_data_[i].summary = NoValue
          \/ epic_data_[i].status = NoValue
    \/ \E n \in 1..Len(task_data_) :
          \/ task_data_[n].status = NoStatus
          \/ task_data_[n].type = NoValue
          \/ task_data_[n].parent = NoKey
          \/ /\ is_linked([i \in 1..Len(epic_data_) |-> epic_info(epic_data_[i])],
                           task_data_[n])
             /\ task_data_[n].summary = NoValue

\* The number of recent updates the report of get_jira_project_status
\* lists: [:5]
report_cap == 5

\* The recent updates listed in the report of get_jira_project_status.
report_recent_updates(status) == Take(status.recent_updates, report_cap)

\* Bounds of the tracker's answers.
MaxEpics == 2

MaxIssues == 3

EpicKeys == {"ADK-1", "ADK-2"}

\* The statuses of the issues: two that count as completed once lower-cased,
\* and one that does not.
Statuses ==
    { << "D", "o", "n", "e" >>,
      << "C", "O", "N", "C", "L", "U", "Iacute", "D", "O" >>,
      << "T", "o", " ", "D", "o" >> }

\* The issue types of an answer, by the place of the issue: all issues are
\* tasks, or tasks and stories alternate.
TypePatterns ==
    { [i \in 1..MaxIssues |-> "Task"],
      [i \in 1..MaxIssues |-> IF i % 2 = 1 THEN "Task" ELSE "Story"] }

\* The parent of an issue: an epic key, which may be the key of no epic of
\* the answer, or none.
Parents == EpicKeys \cup {NoValue}

Epics ==
    [ key : EpicKeys, summary : {"Auth"}, status : {"In Progress"} ]

\* Sequences over a set, of at most n elements.
SeqUpTo(S, n) == UNION { [1..k -> S] : k \in 0..n }

\* The issues of an answer; the key of an issue is its place in the tracker.
IssueFields(updates) ==
    [ status : Statuses, parent : Parents, updated : updates ]

Issues(fields, types) ==
    [ i \in 1..Len(fields) |->
        [ key     |-> i,
          summary |-> "task",
          status  |-> fields[i].status,
          type    |-> types[i],
          parent  |-> fields[i].parent,
          updated |-> fields[i].updated ] ]

\* A status call on any epics and issues, all issues updated inside the
\* window.
StatusInit ==
    /\ InitLoop
    /\ created = <<>>
    /\ calls = <<>>
    /\ ops = <<>>
    /\ epic_data \in SeqUpTo(Epics, MaxEpics)
    /\ \E fields \in SeqUpTo(IssueFields({Timestamp(90, 0)}), MaxIssues),
          types \in TypePatterns :
          task_data = Issues(fields, types)
    /\ now = 100
    /\ days_back = 7
    /\ status_call = "none"
    /\ status_data = <<>>

\* A field updated that is missing or empty, and one that is no time.
NoUpdate == [kind |-> "none", wall |-> 0, off |-> 0]

BadUpdate == [kind |-> "text", wall |-> 0, off |-> 0]

\* The values of updated around the cutoff of hour 32 (now is hour 200, the
\* window 7 days): written in UTC one hour after the cutoff and exactly at
\* it; written two hours east of UTC with a wall-clock hour after the cutoff
\* although the instant is the cutoff; written three hours west of UTC with
\* a wall-clock hour before the cutoff although the instant is after it;
\* missing; and no time. Offsets differ within one answer when the window
\* holds a change of the daylight saving time.
Updates ==
    { Timestamp(33, 0), Timestamp(32, 0), Timestamp(34, 2), Timestamp(31, -3),
      NoUpdate, BadUpdate }

\* A status call on one epic and on issues updated at any of Updates, each
\* an issue of the epic or of none.
RecentInit ==
    /\ InitLoop
    /\ created = <<>>
    /\ calls = <<>>
    /\ ops = <<>>
    /\ epic_data = << [key |-> "ADK-1", summary |-> "Auth", status |-> "In Progress"] >>
    /\ \E fields \in SeqUpTo([ status : {<< "T", "o", " ", "D", "o" >>},
                               parent : {"ADK-1", NoValue},
                               updated : Updates ], MaxIssues),
          types \in TypePatterns :
          task_data = Issues(fields, types)
    /\ now = 200
    /\ days_back = 7
    /\ status_call = "none"
    /\ status_data = <<>>

\* The keys of the two issues of a small project.
ScenarioKeys == << "ADK-2", "ADK-3" >>

\* A status call at hour 600 on the epic ADK-1 and on up to two issues, each
\* a task with any status and parent, updated 2 days, 7 days or 20 days
\* before now and written in UTC.
ScenarioInit ==
    /\ InitLoop
    /\ created = <<>>
    /\ calls = <<>>
    /\ ops = <<>>
    /\ epic_data = << [key |-> "ADK-1", summary |-> "Auth", status |-> "In Progress"] >>
    /\ \E fields \in SeqUpTo(IssueFields({ Timestamp(600 - 2 * 24, 0),
                                            Timestamp(600 - 7 * 24, 0),
                                            Timestamp(600 - 20 * 24, 0) }),
                              Len(ScenarioKeys)) :
          task_data =
              [ i \in 1..Len(fields) |->
                  [ key     |-> ScenarioKeys[i],
                    summary |-> "task",
                    status  |-> fields[i].status,
                    type    |-> "Task",
                    parent  |-> fields[i].parent,
                    updated |-> fields[i].updated ] ]
    /\ now = 600
    /\ days_back = 7
    /\ status_call = "none"
    /\ status_data = <<>>

\* The longest answer of issues of a status call on a busy project.
MaxFeed == 11

\* The values of updated of a busy project, both after the cutoff of hour 32
\* by wall clock and by instant: hour 35 written in UTC, and hour 36 written
\* two hours east of UTC, which is the instant of hour 34.
FeedUpdates == { Timestamp(35, 0), Timestamp(36, 2) }

\* A status call on a project without epics and with up to MaxFeed issues,
\* all updated inside the window.
FeedInit ==
    /\ InitLoop
    /\ created = <<>>
    /\ calls = <<>>
    /\ ops = <<>>
    /\ epic_data = <<>>
    /\ \E updates \in SeqUpTo(FeedUpdates, MaxFeed) :
          task_data =
              [ i \in 1..Len(updates) |->
                  [ key     |-> i,
                    summary |-> "task",
                    status  |-> << "T", "o", " ", "D", "o" >>,
                    type    |-> "Task",
                    parent  |-> NoValue,
                    updated |-> updates[i] ] ]
    /\ now = 200
    /\ days_back = 7
    /\ status_call = "none"
    /\ status_data = <<>>

\* The longest answers of a status call on records with anomalies.
MaxAnomalous == 2

\* Epics and issues of which a field may be missing or null; an issue may
\* have a parent object without a key.
AnomalousEpics ==
    [ key : {"ADK-1"}, summary : {"Auth", NoValue}, status : {"In Progress", NoValue} ]

AnomalousIssues ==
    [ summary : {"task", NoValue},
      status  : {<< "T", "o", " ", "D", "o" >>, NoStatus},
      type    : {"Task", NoValue},
      parent  : {"ADK-1", NoValue, NoKey} ]

\* A status call whose tracker calls succeed and answer with at most one
\* epic and up to MaxAnomalous issues, any of them with anomalies.
AnomalyInit ==
    /\ InitLoop
    /\ created = <<>>
    /\ calls = <<>>
    /\ ops = <<>>
    /\ epic_data \in SeqUpTo(AnomalousEpics, 1)
    /\ \E fields \in SeqUpTo(AnomalousIssues, MaxAnomalous) :
          task_data =
              [ i \in 1..Len(fields) |->
                  [ key     |-> i,
                    summary |-> fields[i].summary,
                    status  |-> fields[i].status,
                    type    |-> fields[i].type,
                    parent  |-> fields[i].parent,
                    updated |-> Timestamp(33, 0) ] ]
    /\ now = 200
    /\ days_back = 7
    /\ status_call = "none"
    /\ status_data = <<>>

\* client.get_project_status(project_key, days_back) returns, or raises
\* while it processes the answers.
GetProjectStatus ==
    /\ status_call = "none"
    /\ IF get_project_status_raises(epic_data, task_data)
          THEN /\ status_call' = "raised"
               /\ status_data' = <<>>
          ELSE /\ status_call' = "returned"
               /\ status_data' =
                     get_project_status(epic_data, task_data, now, days_back)
    /\ UNCHANGED <<loopVars, created, epic_data, task_data, now, days_back,
                   toolVars>>

\* ------------------------------------------------------------------------
\* The tool operations and the outcomes of the tracker client
\* ------------------------------------------------------------------------

Tools ==
    { "create_jira_epic", "get_jira_epics", "create_jira_task",
      "get_jira_project_status", "update_jira_issue" }

\* What the tracker client does in the try block of a tool: JiraClient()
\* raises ValueError when a setting is missing, the client method raises a
\* RequestException when the tracker call fails, anything else is raised as
\* another Exception (a KeyError on a record of the answer, for one), or the
\* method returns: a value the tool can read, or one it cannot.
ClientOutcomes ==
    { "value", "malformed", "ValueError", "RequestException", "Exception" }

\* e.response of a RequestException: none, a JSON body, or a body that is no
\* JSON.
ResponseDetails == { "none", "json", "text" }

\* The tools that read the value the client returns: response['key'] of the
\* two create tools, and the epics get_jira_epics formats; a value they
\* cannot read raises inside the try block.
ReadsValue == { "create_jira_epic", "get_jira_epics", "create_jira_task" }

Returned(kind, text) == [raised |-> FALSE, kind |-> kind, text |-> text]

\* Variant: the last except clause is missing, so an exception that is
\* neither a ValueError nor a RequestException leaves the tool.
on_exception_no_catch_all(outcome, detail) ==
    IF outcome = "ValueError"
       THEN Returned("config_error", "Erro de configuracao")
       ELSE IF outcome = "RequestException"
               THEN Returned("api_error",
                             IF detail = "none"
                                THEN "Nenhuma resposta detalhada recebida."
                                ELSE detail)
               ELSE [raised |-> TRUE, kind |-> outcome, text |-> "none"]

\* The except clauses of a tool: ValueError, RequestException (with the
\* details of the response when there is one), and any other Exception; each
\* returns its message.
on_exception(outcome, detail) ==
    IF outcome = "ValueError"
       THEN Returned("config_error", "Erro de configuracao")
       ELSE IF outcome = "RequestException"
               THEN Returned("api_error",
                             IF detail = "none"
                                THEN "Nenhuma resposta detalhada recebida."
                                ELSE detail)
               ELSE Returned("unexpected_error", "Erro inesperado")

\* What a tool gives back to the agent: update_jira_issue without a field to
\* update returns its message before it builds a client; otherwise the try
\* block runs, and a value the tool cannot read raises there.
tool_result(tool, has_fields, outcome, detail) ==
    IF tool = "update_jira_issue" /\ ~has_fields
       THEN Returned("no_fields_error", "Erro: Nenhum campo para atualizar")
       ELSE IF outcome = "value" \/ (outcome = "malformed" /\ tool \notin ReadsValue)
               THEN Returned("success", tool)
               ELSE IF outcome = "malformed"
                       THEN on_exception("Exception", detail)
                       ELSE on_exception(outcome, detail)

\* Bound on the tool calls of one behaviour.
MaxCalls == 2

\* The agent calls a tool; the client does any of what it can do. The
\* response detail matters for a RequestException alone.
CallTool(tool, has_fields) ==
    /\ Idle
    /\ Len(calls) < MaxCalls
    /\ \E outcome \in ClientOutcomes, detail \in ResponseDetails :
          /\ outcome # "RequestException" => detail = "none"
          /\ (outcome = "malformed") => tool \in ReadsValue
          /\ calls' = Append(calls,
                             [ tool       |-> tool,
                               has_fields |-> has_fields,
                               outcome    |-> outcome,
                               detail     |-> detail,
                               result     |-> tool_result(tool, has_fields,
                                                          outcome, detail) ])
    /\ UNCHANGED <<loopVars, created, statusVars, ops>>

CreateJiraEpic == CallTool("create_jira_epic", TRUE)

GetJiraEpics == CallTool("get_jira_epics", TRUE)

CreateJiraTask == CallTool("create_jira_task", TRUE)

GetJiraProjectStatus == CallTool("get_jira_project_status", TRUE)

UpdateJiraIssue == \E has_fields \in BOOLEAN : CallTool("update_jira_issue", has_fields)

\* ------------------------------------------------------------------------
\* The tool operations, request by request: JiraClient and its callers
\* ------------------------------------------------------------------------

\* The requests JiraClient sends to the tracker.
POST_issue == "POST /rest/api/2/issue"

GET_project == "GET /rest/api/2/project/{project_key}"

GET_search == "GET /rest/api/2/search"

PUT_issue == "PUT /rest/api/2/issue/{issue_key}"

\* What a method of the client does: the requests it sent, whether it raised
\* the RequestException of a failed request, and the issue type and the
\* fields of the payload it sent ("<unset>" and {} when it sent none).
Done(sent, raised, task_type, fields) ==
    [sent |-> sent, raised |-> raised, task_type |-> task_type, fields |-> fields]

\* Variant: a failed POST is sent a second time.
create_issue_retried(http_ok, task_type) ==
    IF http_ok
       THEN Done(<<POST_issue>>, FALSE, task_type, {})
       ELSE Done(<<POST_issue, POST_issue>>, TRUE, task_type, {})

\* create_issue: one POST, and raise_for_status on its response.
create_issue(http_ok, task_type) ==
    Done(<<POST_issue>>, ~http_ok, task_type, {})

EpicType == << "E", "p", "i", "c" >>

\* create_epic: the payload of an Epic, handed to create_issue.
create_epic(http_ok) == create_issue(http_ok, EpicType)

\* update_issue: one PUT with the fields, and raise_for_status.
update_issue(http_ok, fields) == Done(<<PUT_issue>>, ~http_ok, NoStatus, fields)

\* search_epics: one GET, and raise_for_status.
search_epics(http_ok) == Done(<<GET_search>>, ~http_ok, NoStatus, {})

\* get_available_issue_types: one GET, raise_for_status, and the names of
\* issueTypes in the order of the answer.
get_available_issue_types(http_ok, types) ==
    [sent |-> <<GET_project>>, raised |-> ~http_ok,
     value |-> IF http_ok THEN types ELSE <<>>]

\* Names of issue types, as texts whose letter case matters; "oacute" stands
\* for the letter o with an acute accent.
TaskType == << "T", "a", "s", "k" >>

StoryType == << "S", "t", "o", "r", "y" >>

TarefaType == << "T", "a", "r", "e", "f", "a" >>

BugType == << "B", "u", "g" >>

task_type_candidates ==
    << TaskType,
       TarefaType,
       << "T", "a", "r", "e", "a" >>,
       << "A", "u", "f", "g", "a", "b", "e" >>,
       StoryType,
       << "H", "i", "s", "t", "oacute", "r", "i", "a" >> >>

\* The lower-cased names create_task never takes as the type of a task.
NotTaskTypes ==
    { << "e", "p", "i", "c" >>,
      << "s", "u", "b", "-", "t", "a", "s", "k" >>,
      << "s", "u", "b", "t", "a", "s", "k" >>,
      << "s", "u", "b", "t", "a", "r", "e", "f", "a" >> }

\* Variant: the name is compared as it is, without lower-casing it.
is_task_like_case_sensitive(issue_type) == issue_type \notin NotTaskTypes

\* issue_type.lower() not in ["epic", "sub-task", "subtask", "subtarefa"]
is_task_like(issue_type) == Lower(issue_type) \notin NotTaskTypes

InSeq(x, seq) == \E i \in 1..Len(seq) : seq[i] = x

\* The first candidate, in the order of the candidates, that is available,
\* and the first available type, in the order of the answer, that is
\* task-like; the caller makes sure there is one.
FirstCandidateIn(available) ==
    task_type_candidates[
        CHOOSE i \in 1..Len(task_type_candidates) :
            /\ InSeq(task_type_candidates[i], available)
            /\ \A j \in 1..(i - 1) : ~InSeq(task_type_candidates[j], available)]

FirstTaskLikeIn(available) ==
    available[
        CHOOSE i \in 1..Len(available) :
            /\ is_task_like(available[i])
            /\ \A j \in 1..(i - 1) : ~is_task_like(available[j])]

\* The issue type create_task puts in the payload, from the outcome of the
\* type discovery: "Task" when the discovery raised; else the first
\* candidate that is available; else the first available type that is
\* task-like; else "Task".
choose_task_type(discovery) ==
    IF discovery.raised
       THEN TaskType
       ELSE IF \E i \in 1..Len(task_type_candidates) :
                  InSeq(task_type_candidates[i], discovery.value)
               THEN FirstCandidateIn(discovery.value)
               ELSE IF \E i \in 1..Len(discovery.value) :
                          is_task_like(discovery.value[i])
                       THEN FirstTaskLikeIn(discovery.value)
                       ELSE TaskType

\* create_task: the type discovery, whose failure is caught, and then
\* create_issue with the chosen type.
create_task(types_ok, post_ok, types) ==
    LET discovery == get_available_issue_types(types_ok, types)
        posted    == create_issue(post_ok, choose_task_type(discovery))
    IN  Done(discovery.sent \o posted.sent, posted.raised,
             posted.task_type, {})

\* The requests of get_project_status: the type discovery, whose failure is
\* caught, the search for the epics and, when that has not raised, the
\* search for the issues.
get_project_status_requests(types_ok, epics_ok, tasks_ok) ==
    LET discovery == get_available_issue_types(types_ok, <<>>)
    IN  IF ~epics_ok
           THEN Done(discovery.sent \o <<GET_search>>, TRUE, NoStatus, {})
           ELSE Done(discovery.sent \o <<GET_search, GET_search>>, ~tasks_ok,
                     NoStatus, {})

\* Variant: the client is built without reading the settings, which are
\* missed when the reply of the tracker comes.
with_client_unchecked(config_ok, method) ==
    IF ~config_ok
       THEN [method EXCEPT !.raised = TRUE]
       ELSE method

\* client = JiraClient() and then the call of a method of the client: when a
\* setting is missing JiraClient() raises ValueError and the method is never
\* called.
with_client(config_ok, method) ==
    IF ~config_ok
       THEN Done(<<>>, TRUE, NoStatus, {})
       ELSE method

\* The exception the try block of a tool ends with, "value" when it does not
\* raise.
client_outcome(config_ok, run) ==
    IF ~config_ok THEN "ValueError"
    ELSE IF run.raised THEN "RequestException"
    ELSE "value"

\* Variant: a field is left out only when it is None; an empty text is sent.
fields_to_update_not_none(summary, description) ==
    (IF summary # NoValue THEN {"summary"} ELSE {})
       \cup (IF description # NoValue THEN {"description"} ELSE {})

\* fields_to_update of update_jira_issue: a field is in it when its argument
\* is neither None nor empty.
fields_to_update(summary, description) ==
    (IF summary \notin {NoValue, ""} THEN {"summary"} ELSE {})
       \cup (IF description \notin {NoValue, ""} THEN {"description"} ELSE {})

\* The record of an operation.
Operation(tool, env, run, result) ==
    [ tool |-> tool, env |-> env, sent |-> run.sent, task_type |-> run.task_type,
      fields |-> run.fields, result |-> result ]

\* What the tracker is set to do in an operation: whether the settings are
\* there, whether the first, second and third request succeed, the issue
\* types of the project, and the arguments summary and description.
Env(config_ok, http, types, summary, description) ==
    [ config_ok |-> config_ok, http |-> http, types |-> types,
      summary |-> summary, description |-> description ]

\* The result of a tool whose try block ran the client.
tool_return(tool, config_ok, run) ==
    IF client_outcome(config_ok, run) = "value"
       THEN Returned("success", tool)
       ELSE on_exception(client_outcome(config_ok, run), "none")

\* Bound on the issue types of a project.
MaxTypes == 2

TypeNames ==
    { TaskType, StoryType, TarefaType, BugType, EpicType,
      << "E", "P", "I", "C" >>,
      << "S", "u", "b", "-", "t", "a", "s", "k" >> }

ArgTexts == { NoValue, "", "text" }

\* One operation is run in a behaviour. The answers of the tracker are
\* records without anomalies, so that get_jira_project_status fails only
\* with the client or a request.
NoOperation == ops = <<>>

RunCreateJiraEpic ==
    /\ NoOperation
    /\ \E config_ok \in BOOLEAN, http \in [1..3 -> BOOLEAN] :
          LET run == with_client(config_ok, create_epic(http[1]))
          IN  ops' = << Operation("create_jira_epic",
                                  Env(config_ok, http, <<>>, "text", "text"),
                                  run,
                                  tool_return("create_jira_epic", config_ok, run)) >>
    /\ UNCHANGED <<loopVars, created, statusVars, calls>>

RunGetJiraEpics ==
    /\ NoOperation
    /\ \E config_ok \in BOOLEAN, http \in [1..3 -> BOOLEAN] :
          LET run == with_client(config_ok, search_epics(http[1]))
          IN  ops' = << Operation("get_jira_epics",
                                  Env(config_ok, http, <<>>, NoValue, NoValue),
                                  run,
                                  tool_return("get_jira_epics", config_ok, run)) >>
    /\ UNCHANGED <<loopVars, created, statusVars, calls>>

RunCreateJiraTask ==
    /\ NoOperation
    /\ \E config_ok \in BOOLEAN, http \in [1..3 -> BOOLEAN],
          types \in SeqUpTo(TypeNames, MaxTypes) :
          LET run == with_client(config_ok, create_task(http[1], http[2], types))
          IN  ops' = << Operation("create_jira_task",
                                  Env(config_ok, http, types, "text", "text"),
                                  run,
                                  tool_return("create_jira_task", config_ok, run)) >>
    /\ UNCHANGED <<loopVars, created, statusVars, calls>>

RunGetJiraProjectStatus ==
    /\ NoOperation
    /\ \E config_ok \in BOOLEAN, http \in [1..3 -> BOOLEAN] :
          LET run == with_client(config_ok,
                         get_project_status_requests(http[1], http[2], http[3]))
          IN  ops' = << Operation("get_jira_project_status",
                                  Env(config_ok, http, <<>>, NoValue, NoValue),
                                  run,
                                  tool_return("get_jira_project_status",
                                              config_ok, run)) >>
    /\ UNCHANGED <<loopVars, created, statusVars, calls>>

RunUpdateJiraIssue ==
    /\ NoOperation
    /\ \E config_ok \in BOOLEAN, http \in [1..3 -> BOOLEAN],
          summary \in ArgTexts, description \in ArgTexts :
          LET fields == fields_to_update(summary, description)
              run    == IF fields = {}
                           THEN Done(<<>>, FALSE, NoStatus, {})
                           ELSE with_client(config_ok, update_issue(http[1], fields))
          IN  ops' = << Operation("update_jira_issue",
                                  Env(config_ok, http, <<>>, summary, description),
                                  run,
                                  IF fields = {}
                                     THEN tool_result("update_jira_issue", FALSE,
                                                      "value", "none")
                                     ELSE tool_return("update_jira_issue",
                                                      config_ok, run)) >>
    /\ UNCHANGED <<loopVars, created, statusVars, calls>>

vars == <<phase, state, times_looped, escalate, failure,
          critiques, reviewed, refined, created,
          epic_data, task_data, now, days_back, status_call, status_data,
          calls, ops>>

\* No status call is made in a refinement session.
NoStatusCall ==
    /\ epic_data = <<>>
    /\ task_data = <<>>
    /\ now = 0
    /\ days_back = 0
    /\ status_call = "none"
    /\ status_data = <<>>

Init ==
    /\ InitLoop
    /\ created = <<>>
    /\ calls = <<>>
    /\ ops = <<>>
    /\ NoStatusCall

NextLoop ==
    \/ RootDelegate
    \/ EpicsCreatorRun
    \/ LoopStart
    \/ CriticRun
    \/ CriticFail
    \/ RefinerRun
    \/ RefinerFail

\* The refinement session alone.
Spec == Init /\ [][NextLoop]_vars

\* The refinement session together with the epic creation route.
Next ==
    \/ NextLoop
    \/ EpicCreatorRun

RouteSpec == Init /\ [][Next]_vars

\* The agent runtime runs a started step to its end: a running critic or
\* refiner either produces its output or fails.
Fairness ==
    /\ WF_vars(CriticRun \/ CriticFail)
    /\ WF_vars(RefinerRun \/ RefinerFail)

FairSpec == Spec /\ Fairness

\* The project status aggregation alone.
StatusNext == GetProjectStatus

StatusSpec == StatusInit /\ [][StatusNext]_vars

\* The aggregation on issues updated around the cutoff.
RecentSpec == RecentInit /\ [][StatusNext]_vars

\* The aggregation on a small project.
ScenarioSpec == ScenarioInit /\ [][StatusNext]_vars

\* The aggregation on a busy project.
FeedSpec == FeedInit /\ [][StatusNext]_vars

\* The aggregation on records with anomalies.
AnomalySpec == AnomalyInit /\ [][StatusNext]_vars

\* The tool operations alone.
ToolNext ==
    \/ CreateJiraEpic
    \/ GetJiraEpics
    \/ CreateJiraTask
    \/ GetJiraProjectStatus
    \/ UpdateJiraIssue

ToolSpec == Init /\ [][ToolNext]_vars

\* One tool operation, request by request.
ClientNext ==
    \/ RunCreateJiraEpic
    \/ RunGetJiraEpics
    \/ RunCreateJiraTask
    \/ RunGetJiraProjectStatus
    \/ RunUpdateJiraIssue

ClientSpec == Init /\ [][ClientNext]_vars

\* ------------------------------------------------------------------------
\* Properties of the refinement session
\* ------------------------------------------------------------------------

\* The iteration in which the critic first returned the completion phrase,
\* 0 when it has not returned it.
FirstSentinel(seq) ==
    IF \E i \in 1..Len(seq) : seq[i] = COMPLETION_PHRASE
       THEN CHOOSE i \in 1..Len(seq) :
               /\ seq[i] = COMPLETION_PHRASE
               /\ \A j \in 1..(i - 1) : seq[j] # COMPLETION_PHRASE
       ELSE 0

Last(seq) == seq[Len(seq)]

\* The state part of C1.
StopAtSentinel ==
    LET k == FirstSentinel(critiques)
    IN  /\ k # 0 =>
              /\ Len(critiques) = k
              /\ Len(refined) = k - 1
              /\ phase \in {"REFINING", "DONE", "ABORTED"}
              /\ phase = "ABORTED" => failure = "refiner"
        /\ phase = "DONE" =>
              /\ k # 0
              /\ k <= 5
              /\ escalate
              /\ times_looped = k - 1
              /\ failure = "none"

\* C1: when the critic first returns the exact completion phrase in iteration
\* k, the loop ends with STOP (DONE) after exactly k iterations: k critic runs
\* and k - 1 refine runs have happened, no critic or refine step follows, and
\* the refiner step of iteration k leads to DONE (or to the abort of C6 when
\* that step itself fails).
C1_StopAfterKIterations ==
    /\ []StopAtSentinel
    /\ (phase = "REFINING" /\ state.criticism = COMPLETION_PHRASE)
          ~> (phase \in {"DONE", "ABORTED"})

\* Witness of C1: STOP in iteration 3 after two critiques that were not the
\* completion phrase.
C1_Witness ==
    /\ phase = "DONE"
    /\ Len(critiques) = 3
    /\ critiques[1] # COMPLETION_PHRASE
    /\ critiques[2] # COMPLETION_PHRASE
    /\ critiques[3] = COMPLETION_PHRASE

\* C2: when the critic never returns the completion phrase (and no step
\* fails) the loop ends after exactly 5 iterations, 5 critic runs and 5 refine
\* runs, as CAPPED and not as a failure, and the draft left in the session
\* state is the one written by the 5th refine step.
C2_CappedAfterFive ==
    /\ phase = "CAPPED" =>
          /\ Len(critiques) = 5
          /\ Len(refined) = 5
          /\ times_looped = 5
          /\ FirstSentinel(critiques) = 0
          /\ state.current_epic = refined[5]
          /\ failure = "none"
          /\ ~escalate
    /\ (phase \in {"CRITIQUING", "REFINING"} /\ FirstSentinel(critiques) = 0) =>
          /\ Len(refined) < 5
          /\ Len(refined) = times_looped
    /\ Len(refined) = 5 => phase = "CAPPED"

\* Witness of C2: the cap is reached and the 5th refine step wrote a draft
\* that differs from the 4th.
C2_Witness ==
    /\ phase = "CAPPED"
    /\ Len(refined) = 5
    /\ refined[4] = "draft A"
    /\ refined[5] = "draft B"
    /\ state.current_epic = "draft B"

C5_TerminatesWithinFive ==
    /\ [](Len(critiques) <= 5 /\ Len(refined) <= 5 /\ times_looped <= 5)
    /\ (phase \in {"CRITIQUING", "REFINING"}) ~> (phase \in Terminal)

\* Witness of C5: the 5th critic run has happened.
C5_Witness ==
    /\ Len(critiques) = 5
    /\ phase = "REFINING"

\* A step of the loop in which the running agent produced no output.
FailedStep ==
    \/ /\ phase = "CRITIQUING"
       /\ phase' # "CRITIQUING"
       /\ critiques' = critiques
    \/ /\ phase = "REFINING"
       /\ phase' # "REFINING"
       /\ refined' = refined
       /\ ~escalate'

\* C6: when the critic or the refiner fails to produce output, the loop aborts
\* there, no critic or refine step follows, and the failure is reported to
\* the caller: the loop does not end as DONE or CAPPED.
C6_FailureAborts ==
    /\ [][ FailedStep => (phase' = "ABORTED" /\ failure' # "none") ]_vars
    /\ [][ phase = "ABORTED" =>
              \/ (critiques' = critiques /\ refined' = refined /\ phase' = "ABORTED")
              \/ (critiques' = <<>> /\ refined' = <<>>
                    /\ phase' \in {"DRAFTING", "CRITIQUING"}) ]_vars
    /\ [](phase = "ABORTED" <=> failure # "none")

\* Witness of C6: the refiner failed in iteration 2.
C6_Witness ==
    /\ phase = "ABORTED"
    /\ failure = "refiner"
    /\ Len(critiques) = 2
    /\ Len(refined) = 1

\* C7 as stated: a session changes step only along DRAFTING -> CRITIQUING
\* (after the initial draft), CRITIQUING -> the refine-or-stop step,
\* from there -> DONE when the critique is the completion phrase and
\* -> CRITIQUING or CAPPED when it is not, or to the abort of a failing step;
\* a critic step is entered only from the drafting step or from a refine
\* step, and after DONE or CAPPED only a new session, which begins with
\* drafting, follows.
C7_CritiqueFollowsDrafting ==
    [][ phase' # phase =>
          \/ phase \in {"IDLE", "DONE", "CAPPED", "ABORTED"} /\ phase' = "DRAFTING"
          \/ phase = "DRAFTING" /\ phase' = "CRITIQUING"
          \/ phase = "CRITIQUING" /\ phase' = "REFINING"
          \/ /\ phase = "REFINING"
             /\ state.criticism = COMPLETION_PHRASE
             /\ phase' = "DONE"
          \/ /\ phase = "REFINING"
             /\ state.criticism # COMPLETION_PHRASE
             /\ phase' \in {"CRITIQUING", "CAPPED"}
          \/ phase \in {"CRITIQUING", "REFINING"} /\ phase' = "ABORTED" ]_vars

\* C8 as stated: every epic persisted on the epic creation route was created
\* after the refinement loop had ended (DONE or CAPPED) and its description is
\* the final draft of the loop.
C8_PersistAfterLoop ==
    \A i \in 1..Len(created) :
        /\ created[i].loop_ended
        /\ created[i].description = created[i].final_draft

\* ------------------------------------------------------------------------
\* Properties of the project status aggregation
\* ------------------------------------------------------------------------

Abs(x) == IF x < 0 THEN -x ELSE x

EpicsDetail == status_data.epics_detail

\* C9: for every epic of epics_detail, completion_rate is
\* completed_tasks / task_count * 100 rounded to one decimal (the nearest
\* number of tenths) when the epic has tasks, and 0 when it has none; 3 of 4
\* tasks completed give 75.0.
C9_CompletionRate ==
    status_call = "returned" =>
        \A i \in 1..Len(EpicsDetail) :
            LET e == EpicsDetail[i]
            IN  /\ e.task_count = 0 => e.completion_rate = 0
                /\ e.task_count > 0 =>
                      2 * Abs(e.completion_rate * e.task_count
                                - 1000 * e.completed_tasks) <= e.task_count
                /\ (e.task_count = 4 /\ e.completed_tasks = 3) =>
                      e.completion_rate = 750

\* Witness of C9: an epic with 2 of 3 tasks completed has the rate 66.7, and
\* an epic without tasks has the rate 0.
C9_Witness ==
    /\ status_call = "returned"
    /\ Len(EpicsDetail) = 2
    /\ EpicsDetail[1].task_count = 3
    /\ EpicsDetail[1].completed_tasks = 2
    /\ EpicsDetail[1].completion_rate = 667
    /\ EpicsDetail[2].task_count = 0
    /\ EpicsDetail[2].completion_rate = 0

\* The synonyms of "done" of the claim C10, in lower case.
DoneSynonyms ==
    { << "d", "o", "n", "e" >>,
      << "c", "l", "o", "s", "e", "d" >>,
      << "r", "e", "s", "o", "l", "v", "e", "d" >>,
      << "c", "o", "n", "c", "l", "u", "iacute", "d", "o" >>,
      << "f", "e", "c", "h", "a", "d", "o" >> }

\* C10: for every epic, completed_tasks is the number of the issues attached
\* to it whose status, letter case ignored, is one of done, closed, resolved,
\* concluido, fechado; an attached issue is an issue of the answer whose
\* parent is the epic, with the status it has there, and an issue with
\* another status is not counted.
C10_CompletedCount ==
    status_call = "returned" =>
        \A i \in 1..Len(EpicsDetail) :
            LET e == EpicsDetail[i]
            IN  /\ e.completed_tasks =
                      Cardinality({ j \in 1..Len(e.tasks) :
                                      Lower(e.tasks[j].status) \in DoneSynonyms })
                /\ \A j \in 1..Len(e.tasks) :
                      \E n \in 1..Len(task_data) :
                          /\ task_data[n].key = e.tasks[j].key
                          /\ task_data[n].parent = e.key
                          /\ task_data[n].status = e.tasks[j].status
                /\ \A j, k \in 1..Len(e.tasks) :
                      e.tasks[j].key = e.tasks[k].key => j = k

\* Witness of C10: an epic with three issues attached, one Done, one
\* CONCLUIDO (with its accent) and one To Do, has completed_tasks = 2.
C10_Witness ==
    /\ status_call = "returned"
    /\ \E i \in 1..Len(EpicsDetail) :
          LET e == EpicsDetail[i]
          IN  /\ Len(e.tasks) = 3
              /\ e.tasks[1].status = << "D", "o", "n", "e" >>
              /\ e.tasks[2].status = << "T", "o", " ", "D", "o" >>
              /\ e.tasks[3].status =
                    << "C", "O", "N", "C", "L", "U", "Iacute", "D", "O" >>
              /\ e.completed_tasks = 2

RECURSIVE SumOf(_, _)
SumOf(hist, keys) ==
    IF keys = {}
       THEN 0
       ELSE LET k == CHOOSE x \in keys : TRUE
            IN  hist[k] + SumOf(hist, keys \ {k})

IssuesWithStatus(s) == { n \in 1..Len(task_data) : task_data[n].status = s }

IssuesWithType(t) == { n \in 1..Len(task_data) : task_data[n].type = t }

IssuesOfEpic(key) == { n \in 1..Len(task_data) : task_data[n].parent = key }

\* C11: tasks_by_status and tasks_by_type count every issue of the answer by
\* its status and by its type, attached to an epic or not: each holds, for
\* every status (type) of the answer and for no other key, the number of
\* issues with it, the values of each sum to total_tasks, and total_tasks is
\* the number of issues of the answer.
C11_HistogramsCountAll ==
    status_call = "returned" =>
        LET by_status == status_data.tasks_by_status
            by_type   == status_data.tasks_by_type
        IN  /\ status_data.total_tasks = Len(task_data)
            /\ DOMAIN by_status = { task_data[n].status : n \in 1..Len(task_data) }
            /\ DOMAIN by_type = { task_data[n].type : n \in 1..Len(task_data) }
            /\ \A s \in DOMAIN by_status :
                  by_status[s] = Cardinality(IssuesWithStatus(s))
            /\ \A t \in DOMAIN by_type :
                  by_type[t] = Cardinality(IssuesWithType(t))
            /\ SumOf(by_status, DOMAIN by_status) = status_data.total_tasks
            /\ SumOf(by_type, DOMAIN by_type) = status_data.total_tasks

\* Witness of C11: three issues, none attached to an epic, two of them To Do
\* and one Done, two tasks and a story.
C11_Witness ==
    /\ status_call = "returned"
    /\ Len(task_data) = 3
    /\ \A n \in 1..3 : task_data[n].parent = NoValue
    /\ status_data.total_tasks = 3
    /\ DOMAIN status_data.tasks_by_status =
          { << "T", "o", " ", "D", "o" >>, << "D", "o", "n", "e" >> }
    /\ status_data.tasks_by_status[<< "T", "o", " ", "D", "o" >>] = 2
    /\ status_data.tasks_by_type["Task"] = 2
    /\ status_data.tasks_by_type["Story"] = 1

\* C12 as stated: for every epic of epics_detail, also when two epics of the
\* answer carry the same key, tasks holds exactly one record for each issue
\* of the answer whose parent is the key of the epic and no other record, and
\* task_count is the length of tasks.
C12_TasksPerEpic ==
    status_call = "returned" =>
        \A i \in 1..Len(EpicsDetail) :
            LET e == EpicsDetail[i]
            IN  /\ e.task_count = Len(e.tasks)
                /\ { e.tasks[j].key : j \in 1..Len(e.tasks) } = IssuesOfEpic(e.key)
                /\ Len(e.tasks) = Cardinality(IssuesOfEpic(e.key))

\* The issues C13 is about: those without a parent, or with a parent that is
\* the key of no epic of the answer.
Unlinked ==
    { n \in 1..Len(task_data) :
        \/ task_data[n].parent = NoValue
        \/ \A i \in 1..Len(epic_data) : epic_data[i].key # task_data[n].parent }

\* C13: an issue whose parent is the key of no epic of the answer, or that
\* has no parent, does not make the aggregation fail, is counted in
\* tasks_by_status, tasks_by_type and total_tasks, is in the tasks of no
\* epic, and changes the counts of no epic: the counts of every epic are
\* those of the issues that are not such issues.
C13_UnlinkedCountedOnly ==
    /\ status_call \in {"none", "returned"}
    /\ status_call = "returned" =>
          /\ status_data.total_tasks = Len(task_data)
          /\ \A n \in Unlinked :
                /\ task_data[n].status \in DOMAIN status_data.tasks_by_status
                /\ status_data.tasks_by_status[task_data[n].status]
                      = Cardinality(IssuesWithStatus(task_data[n].status))
                /\ task_data[n].type \in DOMAIN status_data.tasks_by_type
                /\ status_data.tasks_by_type[task_data[n].type]
                      = Cardinality(IssuesWithType(task_data[n].type))
                /\ \A i \in 1..Len(EpicsDetail) :
                      \A j \in 1..Len(EpicsDetail[i].tasks) :
                          EpicsDetail[i].tasks[j].key # n
          /\ \A i \in 1..Len(EpicsDetail) :
                LET e == EpicsDetail[i]
                    own == { j \in 1..Len(e.tasks) : e.tasks[j].key \notin Unlinked }
                IN  /\ e.task_count = Cardinality(own)
                    /\ e.completed_tasks =
                          Cardinality({ j \in own : IsCompleted(e.tasks[j].status) })

\* Witness of C13: the only epic is ADK-1; an issue of ADK-2 and an issue
\* without parent are counted, and the epic holds the one issue that is its
\* own.
C13_Witness ==
    /\ status_call = "returned"
    /\ Len(epic_data) = 1
    /\ epic_data[1].key = "ADK-1"
    /\ Len(task_data) = 3
    /\ task_data[1].parent = "ADK-2"
    /\ task_data[2].parent = NoValue
    /\ task_data[3].parent = "ADK-1"
    /\ status_data.total_tasks = 3
    /\ EpicsDetail[1].task_count = 1
    /\ EpicsDetail[1].tasks[1].key = 3

\* The instant a time names, in hours of UTC.
Instant(updated) == updated.wall - updated.off

RecentUpdates == status_data.recent_updates

RecentKeys == { RecentUpdates[j].key : j \in 1..Len(RecentUpdates) }

\* C14 as stated: an issue whose field updated is a time is in recent_updates
\* (no more than 10 issues are there, so the cap cuts nothing) if and only if
\* the instant of the update is strictly after now minus days_back days,
\* whatever offset the time is written with; the clock of the server, which
\* gives now, shows UTC.
C14_RecentIffInstantAfterCutoff ==
    status_call = "returned" =>
        \A n \in 1..Len(task_data) :
            IsTimestamp(task_data[n].updated) =>
                (n \in RecentKeys
                    <=> Instant(task_data[n].updated) > now - 24 * days_back)

\* C15 as stated: of any two entries of recent_updates the one listed first
\* was updated at an instant no earlier than the other, also when the two
\* times are written with different offsets.
C15_ReverseChronological ==
    status_call = "returned" =>
        \A j, k \in 1..Len(RecentUpdates) :
            j < k => Instant(RecentUpdates[j].updated)
                        >= Instant(RecentUpdates[k].updated)

\* The issues C17 is about: those whose field updated is missing or no time.
Undated == { n \in 1..Len(task_data) : ~IsTimestamp(task_data[n].updated) }

\* C17: an issue whose field updated is missing or cannot be parsed is left
\* out of recent_updates and is still counted in tasks_by_status, in
\* tasks_by_type, in total_tasks and in the tasks of its epic; the failed
\* parse does not make the aggregation fail, and the issues around it are
\* processed as without it: each one written in UTC and updated after the
\* cutoff is in recent_updates, each one is counted, and each one of the
\* epic is in its tasks.
C17_UndatedCountedNotRecent ==
    /\ status_call \in {"none", "returned"}
    /\ status_call = "returned" =>
          /\ \A n \in Undated : n \notin RecentKeys
          /\ status_data.total_tasks = Len(task_data)
          /\ \A n \in 1..Len(task_data) :
                /\ task_data[n].status \in DOMAIN status_data.tasks_by_status
                /\ status_data.tasks_by_status[task_data[n].status]
                      = Cardinality(IssuesWithStatus(task_data[n].status))
                /\ task_data[n].type \in DOMAIN status_data.tasks_by_type
                /\ status_data.tasks_by_type[task_data[n].type]
                      = Cardinality(IssuesWithType(task_data[n].type))
                /\ task_data[n].parent = "ADK-1" =>
                      \E j \in 1..Len(EpicsDetail[1].tasks) :
                          EpicsDetail[1].tasks[j].key = n
                /\ task_data[n].updated = Timestamp(33, 0) => n \in RecentKeys
          /\ EpicsDetail[1].task_count = Cardinality(IssuesOfEpic("ADK-1"))

\* Witness of C17: the first issue has an update text that is no time and
\* the second has none, both are issues of the epic, and the third, updated
\* after the cutoff, is the only recent update.
C17_Witness ==
    /\ status_call = "returned"
    /\ Len(task_data) = 3
    /\ task_data[1].updated = BadUpdate
    /\ task_data[1].parent = "ADK-1"
    /\ task_data[2].updated = NoUpdate
    /\ task_data[2].parent = "ADK-1"
    /\ task_data[3].updated = Timestamp(33, 0)
    /\ RecentKeys = {3}
    /\ status_data.total_tasks = 3
    /\ EpicsDetail[1].task_count = 2

\* The issues updated inside the window, by the instant of the update.
InWindow ==
    { n \in 1..Len(task_data) :
        /\ IsTimestamp(task_data[n].updated)
        /\ Instant(task_data[n].updated) > now - 24 * days_back }

\* C16 as stated: recent_updates never has more than 10 entries; when more
\* than 10 issues are inside the window it holds 10 of them, each updated no
\* earlier than every issue left out; and the report of
\* get_jira_project_status lists at most 5 updates, the first 5 entries of
\* recent_updates.
C16_TenMostRecent ==
    status_call = "returned" =>
        /\ Len(RecentUpdates) <= 10
        /\ Cardinality(InWindow) > 10 =>
              /\ Len(RecentUpdates) = 10
              /\ Cardinality(RecentKeys) = 10
              /\ RecentKeys \subseteq InWindow
              /\ \A n \in RecentKeys, m \in InWindow \ RecentKeys :
                    Instant(task_data[n].updated) >= Instant(task_data[m].updated)
        /\ Len(report_recent_updates(status_data)) <= 5
        /\ \A j \in 1..Len(report_recent_updates(status_data)) :
              report_recent_updates(status_data)[j] = RecentUpdates[j]
        /\ Len(RecentUpdates) >= 5 =>
              Len(report_recent_updates(status_data)) = 5

\* C18 as stated: the tracker calls having succeeded, no anomaly of a single
\* epic or issue record (a missing or null status, issue type or summary, a
\* parent object without a key) makes the aggregation fail: the call
\* returns, and every issue of the answer is counted.
C18_AnomaliesTolerated ==
    /\ status_call # "raised"
    /\ status_call = "returned" => status_data.total_tasks = Len(task_data)

\* ------------------------------------------------------------------------
\* Properties of the tool operations
\* ------------------------------------------------------------------------

FailureKinds ==
    { "config_error", "api_error", "unexpected_error", "no_fields_error" }

\* C20: each of the five tool operations returns a value for every outcome
\* of the tracker client and no exception leaves it: a success message when
\* the client returned a value the tool can read, and otherwise a failure
\* message that tells the failure: the configuration error, the failed
\* tracker call with the details of its response, or the unexpected error.
C20_ToolsAlwaysReturn ==
    \A i \in 1..Len(calls) :
        LET c == calls[i]
        IN  /\ c.tool \in Tools
            /\ ~c.result.raised
            /\ c.result.kind \in FailureKinds \cup {"success"}
            /\ c.result.text # "none"
            /\ c.result.kind = "success" =>
                  /\ c.outcome \in {"value", "malformed"}
                  /\ c.outcome = "malformed" => c.tool \notin ReadsValue
                  /\ c.has_fields
            /\ (c.outcome = "ValueError" /\ c.has_fields) =>
                  c.result.kind = "config_error"
            /\ (c.outcome = "RequestException" /\ c.has_fields) =>
                  c.result.kind = "api_error"
            /\ (c.outcome = "Exception" /\ c.has_fields) =>
                  c.result.kind = "unexpected_error"
            /\ (c.outcome = "value" /\ c.has_fields) => c.result.kind = "success"

\* Witness of C20: get_jira_project_status after an exception of the client
\* that is no ValueError and no RequestException, and update_jira_issue
\* after a failed tracker call whose response is no JSON.
C20_Witness ==
    /\ Len(calls) = 2
    /\ calls[1].tool = "get_jira_project_status"
    /\ calls[1].outcome = "Exception"
    /\ calls[1].result = Returned("unexpected_error", "Erro inesperado")
    /\ calls[2].tool = "update_jira_issue"
    /\ calls[2].has_fields
    /\ calls[2].outcome = "RequestException"
    /\ calls[2].detail = "text"
    /\ calls[2].result.kind = "api_error"

\* ------------------------------------------------------------------------
\* Properties of the tool operations, request by request
\* ------------------------------------------------------------------------

\* The number of requests r among the requests sent.
Sent(op, r) == Cardinality({ i \in 1..Len(op.sent) : op.sent[i] = r })

\* The operation needs the tracker: all do, but update_jira_issue without a
\* field to update.
NeedsTracker(op) ==
    op.tool = "update_jira_issue" =>
        \/ op.env.summary \notin {NoValue, ""}
        \/ op.env.description \notin {NoValue, ""}

\* C21: when a credential setting is missing, a tool operation that needs
\* the tracker returns the configuration error and has sent no request at
\* all: nothing was tried, nothing retried, and no further step was made.
C21_ConfigErrorNoRequest ==
    \A n \in 1..Len(ops) :
        (~ops[n].env.config_ok /\ NeedsTracker(ops[n])) =>
            /\ ops[n].result.kind = "config_error"
            /\ ~ops[n].result.raised
            /\ ops[n].sent = <<>>
            /\ ops[n].fields = {}

\* Witness of C21: create_jira_task without settings, on a tracker of which
\* every request would have succeeded.
C21_Witness ==
    /\ Len(ops) = 1
    /\ ops[1].tool = "create_jira_task"
    /\ ~ops[1].env.config_ok
    /\ \A i \in 1..3 : ops[1].env.http[i]
    /\ ops[1].sent = <<>>
    /\ ops[1].result.kind = "config_error"

\* C22 as stated: whenever a request an operation has sent failed, the
\* issue-type discovery of create_task and of get_project_status included,
\* the operation returns the failure of the tracker call, and so does not
\* report success.
C22_TransportErrorSurfaced ==
    \A n \in 1..Len(ops) :
        (\E i \in 1..Len(ops[n].sent) : ~ops[n].env.http[i]) =>
            ops[n].result.kind = "api_error"

\* C23: no request is retried: an operation of create_jira_epic or
\* create_jira_task has sent at most one POST that creates an issue and an
\* operation of update_jira_issue at most one PUT, whether the request
\* succeeded or failed, and a failed POST or PUT is the last request of its
\* operation.
C23_NoRetry ==
    \A n \in 1..Len(ops) :
        /\ Sent(ops[n], POST_issue) <= 1
        /\ Sent(ops[n], PUT_issue) <= 1
        /\ ops[n].tool \in {"create_jira_epic", "create_jira_task"} =>
              /\ Sent(ops[n], PUT_issue) = 0
              /\ ops[n].result.kind = "success" => Sent(ops[n], POST_issue) = 1
        /\ ops[n].tool = "update_jira_issue" =>
              /\ Sent(ops[n], POST_issue) = 0
              /\ ops[n].result.kind = "success" => Sent(ops[n], PUT_issue) = 1
        /\ ops[n].tool \in {"get_jira_epics", "get_jira_project_status"} =>
              Sent(ops[n], POST_issue) + Sent(ops[n], PUT_issue) = 0
        /\ \A i \in 1..Len(ops[n].sent) :
              (ops[n].sent[i] \in {POST_issue, PUT_issue} /\ ~ops[n].env.http[i]) =>
                  /\ i = Len(ops[n].sent)
                  /\ ops[n].result.kind = "api_error"

\* Witness of C23: create_jira_task whose POST failed after a type discovery
\* that succeeded.
C23_Witness ==
    /\ Len(ops) = 1
    /\ ops[1].tool = "create_jira_task"
    /\ ops[1].env.config_ok
    /\ ops[1].env.http[1]
    /\ ~ops[1].env.http[2]
    /\ ops[1].sent = <<GET_project, POST_issue>>
    /\ ops[1].result.kind = "api_error"

\* The lower-cased names of the epic and sub-task types of the claim C26.
EpicOrSubtaskNames ==
    { << "e", "p", "i", "c" >>,
      << "s", "u", "b", "-", "t", "a", "s", "k" >>,
      << "s", "u", "b", "t", "a", "s", "k" >>,
      << "s", "u", "b", "t", "a", "r", "e", "f", "a" >> }

\* The candidates of the claim C26, in their order.
Candidates ==
    << << "T", "a", "s", "k" >>,
       << "T", "a", "r", "e", "f", "a" >>,
       << "T", "a", "r", "e", "a" >>,
       << "A", "u", "f", "g", "a", "b", "e" >>,
       << "S", "t", "o", "r", "y" >>,
       << "H", "i", "s", "t", "oacute", "r", "i", "a" >> >>

Available(types, name) == \E k \in 1..Len(types) : types[k] = name

TaskLike(name) == Lower(name) \notin EpicOrSubtaskNames

\* C26: the issue type in the payload of create_task depends on the
\* project's type names and on the candidates only: "Task" when the type
\* discovery failed; else the first candidate, in the order of the
\* candidates, that is available; else the first available type whose
\* lower-cased name is not epic, sub-task, subtask or subtarefa; else "Task".
\* The type is never one with such a name.
C26_ChosenTaskType ==
    \A n \in 1..Len(ops) :
        (ops[n].tool = "create_jira_task" /\ Sent(ops[n], POST_issue) = 1) =>
            LET types  == ops[n].env.types
                chosen == ops[n].task_type
            IN  /\ TaskLike(chosen)
                /\ ~ops[n].env.http[1] => chosen = << "T", "a", "s", "k" >>
                /\ ops[n].env.http[1] =>
                      IF \E i \in 1..Len(Candidates) : Available(types, Candidates[i])
                         THEN \E i \in 1..Len(Candidates) :
                                 /\ chosen = Candidates[i]
                                 /\ Available(types, chosen)
                                 /\ \A j \in 1..(i - 1) :
                                       ~Available(types, Candidates[j])
                         ELSE IF \E k \in 1..Len(types) : TaskLike(types[k])
                                 THEN \E k \in 1..Len(types) :
                                         /\ chosen = types[k]
                                         /\ TaskLike(types[k])
                                         /\ \A j \in 1..(k - 1) : ~TaskLike(types[j])
                                 ELSE chosen = << "T", "a", "s", "k" >>

\* Witness of C26: the project has the types EPIC and Bug, in this order, and
\* the task is created as a Bug.
C26_Witness ==
    /\ Len(ops) = 1
    /\ ops[1].tool = "create_jira_task"
    /\ ops[1].env.config_ok
    /\ ops[1].env.http[1]
    /\ ops[1].env.types = << << "E", "P", "I", "C" >>, << "B", "u", "g" >> >>
    /\ ops[1].sent = <<GET_project, POST_issue>>
    /\ ops[1].task_type = << "B", "u", "g" >>

\* The arguments of update_jira_issue that are neither None nor empty.
Supplied(op) ==
    { f \in {"summary", "description"} :
        IF f = "summary"
           THEN op.env.summary \notin {NoValue, ""}
           ELSE op.env.description \notin {NoValue, ""} }

\* C27: update_jira_issue with neither a summary nor a description that is
\* not empty returns its error message and has built no client and sent no
\* request, with or without settings; otherwise it sends no request but one
\* PUT, which carries exactly the fields supplied non-empty.
C27_UpdateFields ==
    \A n \in 1..Len(ops) :
        ops[n].tool = "update_jira_issue" =>
            /\ Supplied(ops[n]) = {} =>
                  /\ ops[n].result.kind = "no_fields_error"
                  /\ ops[n].sent = <<>>
                  /\ ops[n].fields = {}
            /\ Supplied(ops[n]) # {} =>
                  /\ ops[n].result.kind # "no_fields_error"
                  /\ ops[n].sent \in { <<>>, <<PUT_issue>> }
                  /\ ops[n].sent = <<PUT_issue>> <=> ops[n].env.config_ok
                  /\ ops[n].sent = <<PUT_issue>> => ops[n].fields = Supplied(ops[n])

\* Witness of C27: an empty summary and a description; the PUT carries the
\* description alone.
C27_Witness ==
    /\ Len(ops) = 1
    /\ ops[1].tool = "update_jira_issue"
    /\ ops[1].env.config_ok
    /\ ops[1].env.summary = ""
    /\ ops[1].env.description = "text"
    /\ ops[1].sent = <<PUT_issue>>
    /\ ops[1].fields = {"description"}
    /\ ops[1].result.kind = "success"

RECURSIVE SumTaskCount(_, _)
SumTaskCount(epics, i) ==
    IF i = 0 THEN 0 ELSE epics[i].task_count + SumTaskCount(epics, i - 1)

\* The places of epics_detail at which the issue with a key is attached.
AttachedAt(key) ==
    { p \in (1..Len(EpicsDetail)) \X (1..Len(task_data)) :
        /\ p[2] <= Len(EpicsDetail[p[1]].tasks)
        /\ EpicsDetail[p[1]].tasks[p[2]].key = key }

\* C28: in every status returned, each epic has
\* 0 <= completed_tasks <= task_count and a completion rate from 0 to 100
\* (0 to 1000 tenths); each issue of the answer is attached to at most one
\* entry of epics_detail, so the task counts of the epics sum to no more than
\* total_tasks; and total_epics is the length of epics_detail.
C28_StatusBounds ==
    status_call = "returned" =>
        /\ \A i \in 1..Len(EpicsDetail) :
              /\ 0 <= EpicsDetail[i].completed_tasks
              /\ EpicsDetail[i].completed_tasks <= EpicsDetail[i].task_count
              /\ 0 <= EpicsDetail[i].completion_rate
              /\ EpicsDetail[i].completion_rate <= 1000
        /\ \A n \in 1..Len(task_data) :
              Cardinality(AttachedAt(task_data[n].key)) <= 1
        /\ SumTaskCount(EpicsDetail, Len(EpicsDetail)) <= status_data.total_tasks
        /\ status_data.total_epics = Len(EpicsDetail)
        /\ status_data.total_epics = Len(epic_data)

\* Witness of C28: two epics carry the key ADK-1 and three issues have it as
\* parent, two of them completed; the issues are attached once, to the last
\* of the two epics.
C28_Witness ==
    /\ status_call = "returned"
    /\ Len(epic_data) = 2
    /\ epic_data[1].key = "ADK-1"
    /\ epic_data[2].key = "ADK-1"
    /\ Len(task_data) = 3
    /\ \A n \in 1..3 : task_data[n].parent = "ADK-1"
    /\ status_data.total_epics = 2
    /\ status_data.total_tasks = 3
    /\ EpicsDetail[1].task_count = 0
    /\ EpicsDetail[2].task_count = 3
    /\ EpicsDetail[2].completed_tasks = 2
    /\ EpicsDetail[2].completion_rate = 667

\* The input of C24: the epic ADK-1 and two tasks of it, ADK-2 with the
\* status Done updated 2 days ago and ADK-3 with the status To Do updated 20
\* days ago, with a window of 7 days.
C24_Input ==
    /\ Len(epic_data) = 1
    /\ epic_data[1].key = "ADK-1"
    /\ Len(task_data) = 2
    /\ task_data[1].key = "ADK-2"
    /\ task_data[1].type = "Task"
    /\ task_data[1].parent = "ADK-1"
    /\ task_data[1].status = << "D", "o", "n", "e" >>
    /\ Instant(task_data[1].updated) = now - 2 * 24
    /\ task_data[2].key = "ADK-3"
    /\ task_data[2].type = "Task"
    /\ task_data[2].parent = "ADK-1"
    /\ task_data[2].status = << "T", "o", " ", "D", "o" >>
    /\ Instant(task_data[2].updated) = now - 20 * 24
    /\ days_back = 7

\* C24: on that input the aggregation returns total_epics = 1,
\* total_tasks = 2, tasks_by_status = {Done: 1, To Do: 1}, one epic detail
\* ADK-1 with task_count = 2, completed_tasks = 1 and the completion rate
\* 50.0, and recent_updates with the one entry ADK-2.
C24_Scenario ==
    (status_call # "none" /\ C24_Input) =>
        /\ status_call = "returned"
        /\ status_data.total_epics = 1
        /\ status_data.total_tasks = 2
        /\ DOMAIN status_data.tasks_by_status =
              { << "D", "o", "n", "e" >>, << "T", "o", " ", "D", "o" >> }
        /\ status_data.tasks_by_status[<< "D", "o", "n", "e" >>] = 1
        /\ status_data.tasks_by_status[<< "T", "o", " ", "D", "o" >>] = 1
        /\ Len(EpicsDetail) = 1
        /\ EpicsDetail[1].key = "ADK-1"
        /\ EpicsDetail[1].task_count = 2
        /\ EpicsDetail[1].completed_tasks = 1
        /\ EpicsDetail[1].completion_rate = 500
        /\ Len(RecentUpdates) = 1
        /\ RecentUpdates[1].key = "ADK-2"

\* Witness of C24: the status call on that input has returned.
C24_Witness ==
    /\ status_call = "returned"
    /\ C24_Input
    /\ RecentKeys = {"ADK-2"}

\* C25: in every iteration the critic runs before the refiner; the critic
\* reads the draft the refine step of the iteration before has written, and
\* in iteration 1 the draft the session state holds when the loop starts; the
\* refiner acts on the critique of its own iteration, the last one written;
\* and every critique is followed by one refine-or-stop step before the next
\* critique, so no critique of an earlier iteration or of an earlier session
\* is the one acted on.
C25_CritiqueThenRefine ==
    /\ [][ (phase = "CRITIQUING" /\ phase' = "REFINING") =>
              /\ Len(critiques) = Len(refined)
              /\ Len(critiques') = Len(critiques) + 1
              /\ Last(reviewed') = state.current_epic
              /\ Len(refined) > 0 => Last(reviewed') = Last(refined)
              /\ state'.criticism = Last(critiques') ]_vars
    /\ [][ (phase = "REFINING" /\ phase' \notin {"REFINING", "ABORTED"}) =>
              /\ Len(critiques) = Len(refined) + 1
              /\ state.criticism = Last(critiques)
              /\ (phase' = "DONE") <=> (Last(critiques) = COMPLETION_PHRASE)
              /\ phase' # "DONE" =>
                    /\ Len(refined') = Len(critiques)
                    /\ state'.current_epic = Last(refined') ]_vars
    /\ [][ (phase # "CRITIQUING" /\ phase' = "CRITIQUING") =>
              /\ Len(critiques') = Len(refined')
              /\ phase = "REFINING" \/ critiques' = <<>> ]_vars
    /\ [](/\ Len(reviewed) = Len(critiques)
          /\ Len(refined) <= Len(critiques)
          /\ Len(critiques) <= Len(refined) + 1
          /\ \A k \in 2..Len(reviewed) : reviewed[k] = refined[k - 1])

\* Witness of C25: the loop is in its second iteration: its critic read the
\* draft of the first refine step and wrote a critique that differs from the
\* first, which the refiner is about to act on.
C25_Witness ==
    /\ phase = "REFINING"
    /\ Len(critiques) = 2
    /\ Len(refined) = 1
    /\ reviewed[1] = "draft A"
    /\ refined[1] = "draft B"
    /\ reviewed[2] = "draft B"
    /\ critiques[1] = "Add acceptance criteria."
    /\ critiques[2] = "No major issues found"
    /\ state.criticism = "No major issues found"

====
